---------------------------- MODULE Spec2Model ----------------------------
(***************************************************************************)
(* Model of src/app.py: the ProductImageProcessor class (configuration,    *)
(* process_image, _enhance_image, save_image) and the Flask handler        *)
(* process_images that runs a batch of uploads through it against the one  *)
(* process-wide `processor`.                                               *)
(*                                                                         *)
(* An image is a record of its colour mode and pixel size; the fields      *)
(* iw/ih (size at Image.open), cw/ch (size of the scaled content inside a  *)
(* letterboxed image), fill (colour of the composite background), enhanced *)
(* and the three `used*` fields (the value of each operations flag as      *)
(* process_image read it) record what the pipeline did to it.              *)
(***************************************************************************)
EXTENDS Integers, Sequences, FiniteSets, TLC

\* --------------------------------------------------------------- bounds
\* Largest number of file parts in one request's 'images' field.
MaxFiles == 2
\* The wall clock, in seconds, runs from 0 to MaxClock.
MaxClock == 1

\* The requests in flight: two handler threads of the threaded server.
Requests == {"A", "B"}

\* Filenames of uploaded parts ("" is an empty or missing filename).
Filenames == {"", "a.jpg", "b.png"}

\* Colour modes and pixel sizes of the images process_image is given.
Modes == {"RGB", "RGBA", "P", "L"}
ImageSizes == {<<2400, 1200>>, <<600, 900>>, <<1200, 1200>>}
\* Colour modes and pixel sizes of the images that uploads decode to.
UploadModes == {"RGB", "RGBA"}
UploadSizes == {<<2400, 1200>>}

\* The three form fields the handler looks for.
FlagNames == {"resize", "remove_background", "enhance"}

\* ------------------------------------------------------- configuration
\* PIL.ImageColor.getrgb on the colour strings used here.
GetRGB(c) ==
    CASE c = "white"   -> <<255, 255, 255>>
      [] c = "#FFFFFF" -> <<255, 255, 255>>
      [] c = "#000000" -> <<0, 0, 0>>
      [] c = "black"   -> <<0, 0, 0>>

default_config ==
    [dimensions    |-> [width |-> 1200, height |-> 1200],
     output_format |-> "JPEG",
     quality       |-> 95,
     operations    |-> [resize |-> TRUE, remove_background |-> FALSE,
                        enhance |-> TRUE, watermark |-> FALSE],
     backgrounds   |-> [default_color |-> "#FFFFFF", gradient |-> FALSE]]

\* {**default_config, **loaded}: a top-level key of the file replaces the
\* default's value wholesale.
MergeShallow(base, over) ==
    [k \in (DOMAIN base) \cup (DOMAIN over) |->
        IF k \in DOMAIN over THEN over[k] ELSE base[k]]

\* A config_path: NoPath stands for None or a path that does not exist, and
\* File(c) for an existing file that yaml.safe_load reads as the mapping c.
NoPath == [exists |-> FALSE]
File(c) == [exists |-> TRUE, content |-> c]

AllOperations ==
    [resize : BOOLEAN, remove_background : BOOLEAN, enhance : BOOLEAN,
     watermark : {FALSE}]

DimensionsFile == [dimensions |-> [width |-> 800, height |-> 600]]
BackgroundsFile ==
    [backgrounds |-> [default_color |-> "#000000", gradient |-> FALSE]]

ConfigPaths ==
    {NoPath, File(DimensionsFile), File(BackgroundsFile),
     File(MergeShallow(DimensionsFile, BackgroundsFile))}
    \cup {File([operations |-> o]) : o \in AllOperations}
    \cup {File(MergeShallow(DimensionsFile, [operations |-> o])) :
             o \in AllOperations}
    \cup {File(MergeShallow(BackgroundsFile, [operations |-> o])) :
             o \in AllOperations}

_load_config(config_path) ==
    IF config_path.exists
    THEN MergeShallow(default_config, config_path.content)
    ELSE default_config

\* ------------------------------------------------------------- images
NoImage ==
    [mode |-> "none", w |-> 0, h |-> 0, iw |-> 0, ih |-> 0, cw |-> 0, ch |-> 0,
     fill |-> <<>>, enhanced |-> FALSE,
     usedResize |-> FALSE, usedRemove |-> FALSE, usedEnhance |-> FALSE]

\* Image.open: an image of mode m and size s.
Opened(m, s) ==
    [NoImage EXCEPT !.mode = m, !.w = s[1], !.h = s[2], !.iw = s[1],
                    !.ih = s[2], !.cw = s[1], !.ch = s[2]]

Images == {Opened(m, s) : m \in Modes, s \in ImageSizes}
UploadImages == {Opened(m, s) : m \in UploadModes, s \in UploadSizes}

\* image.convert('RGB') when the mode is not RGB (lines 53-54, 81-82, 94-95).
ToRGB(image) == IF image.mode # "RGB" THEN [image EXCEPT !.mode = "RGB"] ELSE image

Abs(x) == IF x < 0 THEN -x ELSE x
Max(a, b) == IF a >= b THEN a ELSE b
CeilDiv(a, b) == (a + b - 1) \div b

\* Image.thumbnail's target size for an image of size <<w, h>> and the box
\* <<x, y>>: unchanged when the image fits, otherwise the aspect-preserving
\* size, each candidate (floor, ceiling) scored by its aspect error.
ThumbnailSize(w, h, x, y) ==
    IF x >= w /\ y >= h THEN <<w, h>>
    ELSE IF x * h >= w * y
         THEN LET lo == (y * w) \div h
                  hi == CeilDiv(y * w, h)
                  \* |aspect - n / y|, scaled by h * y
                  key(n) == Abs(w * y - n * h)
                  best == IF key(lo) <= key(hi) THEN lo ELSE hi
              IN  <<Max(best, 1), y>>
         ELSE LET lo == (x * h) \div w
                  hi == CeilDiv(x * h, w)
                  \* |aspect - x / n| for n # 0, cross-multiplied; 0 for n = 0
                  closer(a, b) ==
                      IF a = 0 THEN TRUE
                      ELSE Abs(w * a - x * h) * b <= Abs(w * b - x * h) * a
                  best == IF closer(lo, hi) THEN lo ELSE hi
              IN  <<x, Max(best, 1)>>

\* Mutant of resize_contain: the scaled image is returned without the
\* letterbox around it.
resize_thumbnail(image, size) ==
    LET t == ThumbnailSize(image.w, image.h, size[1], size[2])
    IN  [image EXCEPT !.mode = "RGBA", !.w = t[1], !.h = t[2],
                      !.cw = t[1], !.ch = t[2]]

\* resizeimage.resize_contain(image, [width, height]): the image scaled by
\* thumbnail and pasted centred on a new RGBA image of exactly the box size.
resize_contain(image, size) ==
    LET t == ThumbnailSize(image.w, image.h, size[1], size[2])
    IN  [image EXCEPT !.mode = "RGBA", !.w = size[1], !.h = size[2],
                      !.cw = t[1], !.ch = t[2]]

\* rembg.remove(image): a cut-out of the same size whose mode is outMode.
remove(image, outMode) == [image EXCEPT !.mode = outMode]

\* Lines 69-74: an RGBA image is pasted on a new opaque white RGB image of
\* the same size; any other mode passes through.
Composite(image) ==
    IF image.mode = "RGBA"
    THEN [image EXCEPT !.mode = "RGB", !.fill = GetRGB("white")]
    ELSE image

\* _enhance_image (lines 90-109): RGB, then contrast, brightness, sharpness.
_enhance_image(image) == [ToRGB(image) EXCEPT !.enhanced = TRUE]

\* save_image lines 119-120: a JPEG is encoded from an RGB image.
ForEncoding(image, output_format) ==
    IF output_format = "JPEG" THEN ToRGB(image) ELSE image

\* ---------------------------------------------------------------- state
VARIABLES
    config,     \* processor.config, the one configuration of the process
    clock,      \* datetime.now(), in whole seconds
    lastWriter, \* the request that ran lines 221-225 last
    pc,         \* pc[r]: where the handler of request r stands
    form,       \* form[r]: the flag fields present in request.form
    hasImages,  \* hasImages[r]: 'images' in request.files
    files,      \* files[r]: filenames of request.files.getlist('images')
    idx,        \* idx[r]: position of the loop over files
    img,        \* img[r]: the image of the file being processed
    archive,    \* archive[r]: entries written to the ZIP, in order
    failed,     \* failed[r]: positions of the files that raised
    log,        \* log[r]: error lines logged while handling r, in order
    resp        \* resp[r]: the response returned

vars == <<config, clock, lastWriter, pc, form, hasImages, files, idx, img,
          archive, failed, log, resp>>

NoResponse == [status |-> 0, body |-> "", download_name |-> <<>>]

\* The file parts a request may carry: up to MaxFiles of them. Requests
\* handled concurrently carry one part each, with or without a filename.
FileLists == UNION {[1..n -> Filenames] : n \in 1..MaxFiles}
SingleFileLists == {<<"">>, <<"a.jpg">>}

\* The values of the three flags as a request's form states them.
FormFlags(f) ==
    [resize |-> "resize" \in f,
     remove_background |-> "remove_background" \in f,
     enhance |-> "enhance" \in f]

\* The three flags of an operations map.
Flags(ops) ==
    [resize |-> ops.resize, remove_background |-> ops.remove_background,
     enhance |-> ops.enhance]

Line(site, name) == [site |-> site, file |-> name]

Idle ==
    /\ pc = [r \in Requests |-> "idle"]
    /\ form = [r \in Requests |-> {}]
    /\ hasImages = [r \in Requests |-> FALSE]
    /\ files = [r \in Requests |-> <<>>]
    /\ idx = [r \in Requests |-> 0]
    /\ img = [r \in Requests |-> NoImage]
    /\ archive = [r \in Requests |-> <<>>]
    /\ failed = [r \in Requests |-> {}]
    /\ log = [r \in Requests |-> <<>>]
    /\ resp = [r \in Requests |-> NoResponse]

\* Line 141: processor = ProductImageProcessor(), no request received yet.
Init ==
    /\ config = _load_config(NoPath)
    /\ clock = 0
    /\ lastWriter = "none"
    /\ Idle

\* Mutants of UpdateOperations.  The first leaves remove_background out of
\* the update; the second sets the flags that are present and leaves the
\* absent ones as they were; the third writes nothing for a request that
\* has no 'images' field.
UpdateOperationsTwoKeys(r, f, has, fs) ==
    /\ pc[r] = "idle"
    /\ form' = [form EXCEPT ![r] = f]
    /\ hasImages' = [hasImages EXCEPT ![r] = has]
    /\ files' = [files EXCEPT ![r] = fs]
    /\ config' = [config EXCEPT
                    !.operations.resize = "resize" \in f,
                    !.operations.enhance = "enhance" \in f]
    /\ lastWriter' = r
    /\ pc' = [pc EXCEPT ![r] = "check"]
    /\ UNCHANGED <<clock, idx, img, archive, failed, log, resp>>

UpdateOperationsPresentOnly(r, f, has, fs) ==
    /\ pc[r] = "idle"
    /\ form' = [form EXCEPT ![r] = f]
    /\ hasImages' = [hasImages EXCEPT ![r] = has]
    /\ files' = [files EXCEPT ![r] = fs]
    /\ config' = [config EXCEPT
                    !.operations.resize = @ \/ "resize" \in f,
                    !.operations.remove_background =
                        @ \/ "remove_background" \in f,
                    !.operations.enhance = @ \/ "enhance" \in f]
    /\ lastWriter' = r
    /\ pc' = [pc EXCEPT ![r] = "check"]
    /\ UNCHANGED <<clock, idx, img, archive, failed, log, resp>>

UpdateOperationsAfterCheck(r, f, has, fs) ==
    /\ pc[r] = "idle"
    /\ form' = [form EXCEPT ![r] = f]
    /\ hasImages' = [hasImages EXCEPT ![r] = has]
    /\ files' = [files EXCEPT ![r] = fs]
    /\ config' = IF has
                 THEN [config EXCEPT
                         !.operations = MergeShallow(@, FormFlags(f))]
                 ELSE config
    /\ lastWriter' = r
    /\ pc' = [pc EXCEPT ![r] = "check"]
    /\ UNCHANGED <<clock, idx, img, archive, failed, log, resp>>

\* ------------------------------------------------------ process_images
\* Lines 221-225 of a request with form f and file parts fs (has = FALSE: no
\* 'images' field): the three flags are written into the shared map.
UpdateOperations(r, f, has, fs) ==
    /\ pc[r] = "idle"
    /\ form' = [form EXCEPT ![r] = f]
    /\ hasImages' = [hasImages EXCEPT ![r] = has]
    /\ files' = [files EXCEPT ![r] = fs]
    /\ config' = [config EXCEPT
                    !.operations = MergeShallow(@, FormFlags(f))]
    /\ lastWriter' = r
    /\ pc' = [pc EXCEPT ![r] = "check"]
    /\ UNCHANGED <<clock, idx, img, archive, failed, log, resp>>

Receive(r, lists) ==
    \E f \in SUBSET FlagNames :
        \/ \E fs \in lists : UpdateOperations(r, f, TRUE, fs)
        \/ UpdateOperations(r, f, FALSE, <<>>)

\* Mutant of CheckFiles: a request without the field is handled as one with
\* no file parts.
CheckFilesNoReject(r) ==
    /\ pc[r] = "check"
    /\ idx' = [idx EXCEPT ![r] = 1]
    /\ pc' = [pc EXCEPT ![r] = "loop"]
    /\ UNCHANGED <<config, clock, lastWriter, form, hasImages, files, img,
                   archive, failed, log, resp>>

\* Lines 228-235: 400 without the field, else the empty ZIP is opened.
CheckFiles(r) ==
    /\ pc[r] = "check"
    /\ IF ~hasImages[r]
       THEN /\ resp' = [resp EXCEPT ![r] =
                         [status |-> 400, body |-> "No files uploaded",
                          download_name |-> <<>>]]
            /\ pc' = [pc EXCEPT ![r] = "done"]
            /\ UNCHANGED idx
       ELSE /\ idx' = [idx EXCEPT ![r] = 1]
            /\ pc' = [pc EXCEPT ![r] = "loop"]
            /\ UNCHANGED resp
    /\ UNCHANGED <<config, clock, lastWriter, form, hasImages, files, img,
                   archive, failed, log>>

\* Mutant of NextFile: a part without a filename is decoded like the rest.
NextFileNoSkip(r) ==
    /\ pc[r] = "loop"
    /\ IF idx[r] > Len(files[r])
       THEN pc' = [pc EXCEPT ![r] = "send"]
       ELSE pc' = [pc EXCEPT ![r] = "open"]
    /\ UNCHANGED <<config, clock, lastWriter, form, hasImages, files, idx,
                   img, archive, failed, log, resp>>

\* Lines 236-237: the next file; one without a filename is passed over.
NextFile(r) ==
    /\ pc[r] = "loop"
    /\ IF idx[r] > Len(files[r])
       THEN /\ pc' = [pc EXCEPT ![r] = "send"]
            /\ UNCHANGED idx
       ELSE IF files[r][idx[r]] = ""
            THEN /\ idx' = [idx EXCEPT ![r] = @ + 1]
                 /\ UNCHANGED pc
            ELSE /\ pc' = [pc EXCEPT ![r] = "open"]
                 /\ UNCHANGED idx
    /\ UNCHANGED <<config, clock, lastWriter, form, hasImages, files, img,
                   archive, failed, log, resp>>

\* Line 240: Image.open decodes the stream into some image.
OpenImage(r) ==
    /\ pc[r] = "open"
    /\ \E image \in UploadImages : img' = [img EXCEPT ![r] = image]
    /\ pc' = [pc EXCEPT ![r] = "normalize"]
    /\ UNCHANGED <<config, clock, lastWriter, form, hasImages, files, idx,
                   archive, failed, log, resp>>

\* Line 240 raising: the stream is no image.
OpenRaise(r) ==
    /\ pc[r] = "open"
    /\ pc' = [pc EXCEPT ![r] = "except"]
    /\ UNCHANGED <<config, clock, lastWriter, form, hasImages, files, idx,
                   img, archive, failed, log, resp>>

\* ------------------------------------------------------- process_image
\* Modes rembg.remove may hand back: with an alpha channel, or without.
RemovedModes == {"RGBA", "RGB"}

\* Lines 53-54.
Normalize(r) ==
    /\ pc[r] = "normalize"
    /\ img' = [img EXCEPT ![r] = ToRGB(@)]
    /\ pc' = [pc EXCEPT ![r] = "resize"]
    /\ UNCHANGED <<config, clock, lastWriter, form, hasImages, files, idx,
                   archive, failed, log, resp>>

\* Lines 57-62: the resize flag is read from the shared map now.
Resize(r) ==
    /\ pc[r] = "resize"
    /\ img' = [img EXCEPT ![r] =
                IF config.operations.resize
                THEN [resize_contain(@, <<config.dimensions.width,
                                         config.dimensions.height>>)
                        EXCEPT !.usedResize = TRUE]
                ELSE @]
    /\ pc' = [pc EXCEPT ![r] = "remove"]
    /\ UNCHANGED <<config, clock, lastWriter, form, hasImages, files, idx,
                   archive, failed, log, resp>>

\* Lines 65-74: the remove_background flag is read from the shared map now.
RemoveBackground(r) ==
    /\ pc[r] = "remove"
    /\ IF config.operations.remove_background
       THEN \E m \in RemovedModes :
               img' = [img EXCEPT ![r] =
                         [Composite(remove(@, m)) EXCEPT !.usedRemove = TRUE]]
       ELSE UNCHANGED img
    /\ pc' = [pc EXCEPT ![r] = "enhance"]
    /\ UNCHANGED <<config, clock, lastWriter, form, hasImages, files, idx,
                   archive, failed, log, resp>>

\* Lines 77-78: the enhance flag is read from the shared map now.
Enhance(r) ==
    /\ pc[r] = "enhance"
    /\ img' = [img EXCEPT ![r] =
                IF config.operations.enhance
                THEN [_enhance_image(@) EXCEPT !.usedEnhance = TRUE]
                ELSE @]
    /\ pc' = [pc EXCEPT ![r] = "final"]
    /\ UNCHANGED <<config, clock, lastWriter, form, hasImages, files, idx,
                   archive, failed, log, resp>>

\* Mutant of Final: the image is returned in whatever mode it has.
FinalKeepsMode(r) ==
    /\ pc[r] = "final"
    /\ pc' = [pc EXCEPT ![r] = "save"]
    /\ UNCHANGED <<config, clock, lastWriter, form, hasImages, files, idx,
                   img, archive, failed, log, resp>>

\* Lines 81-84: the image is returned to the caller.
Final(r) ==
    /\ pc[r] = "final"
    /\ img' = [img EXCEPT ![r] = ToRGB(@)]
    /\ pc' = [pc EXCEPT ![r] = "save"]
    /\ UNCHANGED <<config, clock, lastWriter, form, hasImages, files, idx,
                   archive, failed, log, resp>>

\* A stage of process_image that makes a library call here.
Calls(r) ==
    \/ pc[r] \in {"normalize", "final"} /\ img[r].mode # "RGB"
    \/ pc[r] = "resize" /\ config.operations.resize
    \/ pc[r] = "remove" /\ config.operations.remove_background
    \/ pc[r] = "enhance" /\ config.operations.enhance

\* Lines 86-88 (and 111-113 inside _enhance_image): the call raises, the
\* error is logged and raised again.
ProcessImageRaise(r) ==
    /\ Calls(r)
    /\ log' = [log EXCEPT ![r] =
                (IF pc[r] = "enhance"
                 THEN Append(@, Line("_enhance_image", "")) ELSE @)
                \o <<Line("process_image", "")>>]
    /\ pc' = [pc EXCEPT ![r] = "except"]
    /\ UNCHANGED <<config, clock, lastWriter, form, hasImages, files, idx,
                   img, archive, failed, resp>>

\* ---------------------------------------------- process_images, the rest
\* Lines 244-247, save_image lines 115-133.
SaveImage(r) ==
    /\ pc[r] = "save"
    /\ img' = [img EXCEPT ![r] = ForEncoding(@, config.output_format)]
    /\ pc' = [pc EXCEPT ![r] = "write"]
    /\ UNCHANGED <<config, clock, lastWriter, form, hasImages, files, idx,
                   archive, failed, log, resp>>

\* save_image lines 135-137: the encoder raises.
SaveRaise(r) ==
    /\ pc[r] = "save"
    /\ log' = [log EXCEPT ![r] = Append(@, Line("save_image", ""))]
    /\ pc' = [pc EXCEPT ![r] = "except"]
    /\ UNCHANGED <<config, clock, lastWriter, form, hasImages, files, idx,
                   img, archive, failed, resp>>

\* The name of an archive entry, line 251: the timestamp and the filename.
EntryName(timestamp, filename) == <<"processed", timestamp, filename>>

\* Mutant of WriteEntry: the timestamp of the request's first entry is used
\* for the entries after it.
WriteEntryRequestStamp(r) ==
    /\ pc[r] = "write"
    /\ LET timestamp == IF archive[r] = <<>> THEN clock
                        ELSE archive[r][1].name[2]
       IN  archive' = [archive EXCEPT ![r] =
                        Append(@, [name |-> <<"processed", timestamp,
                                              files[r][idx[r]]>>,
                                   src |-> idx[r]])]
    /\ idx' = [idx EXCEPT ![r] = @ + 1]
    /\ img' = [img EXCEPT ![r] = NoImage]
    /\ pc' = [pc EXCEPT ![r] = "loop"]
    /\ UNCHANGED <<config, clock, lastWriter, form, hasImages, files,
                   failed, log, resp>>

\* Lines 250-252: the clock is read and the entry written.
WriteEntry(r) ==
    /\ pc[r] = "write"
    /\ archive' = [archive EXCEPT ![r] =
                    Append(@, [name |-> EntryName(clock, files[r][idx[r]]),
                               src |-> idx[r]])]
    /\ idx' = [idx EXCEPT ![r] = @ + 1]
    /\ img' = [img EXCEPT ![r] = NoImage]
    /\ pc' = [pc EXCEPT ![r] = "loop"]
    /\ UNCHANGED <<config, clock, lastWriter, form, hasImages, files,
                   failed, log, resp>>

\* Mutant of Except: the error is logged and the loop is left.
ExceptAborts(r) ==
    /\ pc[r] = "except"
    /\ log' = [log EXCEPT ![r] =
                Append(@, Line("process_images", files[r][idx[r]]))]
    /\ failed' = [failed EXCEPT ![r] = @ \cup {idx[r]}]
    /\ img' = [img EXCEPT ![r] = NoImage]
    /\ pc' = [pc EXCEPT ![r] = "send"]
    /\ UNCHANGED <<config, clock, lastWriter, form, hasImages, files, idx,
                   archive, resp>>

\* Lines 254-256: the error is logged with the filename, the loop goes on.
Except(r) ==
    /\ pc[r] = "except"
    /\ log' = [log EXCEPT ![r] =
                Append(@, Line("process_images", files[r][idx[r]]))]
    /\ failed' = [failed EXCEPT ![r] = @ \cup {idx[r]}]
    /\ idx' = [idx EXCEPT ![r] = @ + 1]
    /\ img' = [img EXCEPT ![r] = NoImage]
    /\ pc' = [pc EXCEPT ![r] = "loop"]
    /\ UNCHANGED <<config, clock, lastWriter, form, hasImages, files,
                   archive, resp>>

\* Lines 259-266: the ZIP is sent, named by the clock read now.
SendFile(r) ==
    /\ pc[r] = "send"
    /\ resp' = [resp EXCEPT ![r] =
                 [status |-> 200, body |-> "application/zip",
                  download_name |-> <<"processed_images", clock>>]]
    /\ pc' = [pc EXCEPT ![r] = "done"]
    /\ UNCHANGED <<config, clock, lastWriter, form, hasImages, files, idx,
                   img, archive, failed, log>>

\* The response has gone out and the handler's thread is free again; what
\* the request left behind is the shared configuration alone.
Close(r) ==
    /\ pc[r] = "done"
    /\ pc' = [pc EXCEPT ![r] = "idle"]
    /\ form' = [form EXCEPT ![r] = {}]
    /\ hasImages' = [hasImages EXCEPT ![r] = FALSE]
    /\ files' = [files EXCEPT ![r] = <<>>]
    /\ idx' = [idx EXCEPT ![r] = 0]
    /\ archive' = [archive EXCEPT ![r] = <<>>]
    /\ failed' = [failed EXCEPT ![r] = {}]
    /\ log' = [log EXCEPT ![r] = <<>>]
    /\ resp' = [resp EXCEPT ![r] = NoResponse]
    /\ UNCHANGED <<config, clock, lastWriter, img>>

\* A second passes.
Tick ==
    /\ clock < MaxClock
    /\ clock' = clock + 1
    /\ UNCHANGED <<config, lastWriter, pc, form, hasImages, files, idx, img,
                   archive, failed, log, resp>>

\* The steps of a handler after its first.
Step(r) ==
    \/ CheckFiles(r) \/ NextFile(r) \/ OpenImage(r) \/ OpenRaise(r)
    \/ Normalize(r) \/ Resize(r) \/ RemoveBackground(r) \/ Enhance(r)
    \/ Final(r) \/ ProcessImageRaise(r) \/ SaveImage(r) \/ SaveRaise(r)
    \/ WriteEntry(r) \/ Except(r) \/ SendFile(r) \/ Close(r)

\* Requests handled by concurrent threads, each carrying one file part.
Next == (\E r \in Requests : Receive(r, SingleFileLists) \/ Step(r)) \/ Tick

Spec == Init /\ [][Next]_vars

\* Requests handled one after the other: a request is received only when
\* no other is being handled.
Quiet == \A r \in Requests : pc[r] = "idle"

SeqNext ==
    (\E r \in Requests : (Quiet /\ Receive(r, FileLists)) \/ Step(r)) \/ Tick

SeqSpec == Init /\ [][SeqNext]_vars

\* process_image called on a processor built from any configuration file,
\* with any image.
PipeInit ==
    /\ \E p \in ConfigPaths : config = _load_config(p)
    /\ clock = 0
    /\ lastWriter = "none"
    /\ \E image \in Images :
          img = [r \in Requests |-> IF r = "A" THEN image ELSE NoImage]
    /\ pc = [r \in Requests |-> IF r = "A" THEN "normalize" ELSE "idle"]
    /\ form = [r \in Requests |-> {}]
    /\ hasImages = [r \in Requests |-> FALSE]
    /\ files = [r \in Requests |-> <<>>]
    /\ idx = [r \in Requests |-> 0]
    /\ archive = [r \in Requests |-> <<>>]
    /\ failed = [r \in Requests |-> {}]
    /\ log = [r \in Requests |-> <<>>]
    /\ resp = [r \in Requests |-> NoResponse]

PipeNext ==
    \/ Normalize("A") \/ Resize("A") \/ RemoveBackground("A")
    \/ Enhance("A") \/ Final("A") \/ ProcessImageRaise("A")

PipeSpec == PipeInit /\ [][PipeNext]_vars

\* ---------------------------------------------------------------- claims
\* The flags process_image read for the image of request r.
Used(r) ==
    [resize |-> img[r].usedResize, remove_background |-> img[r].usedRemove,
     enhance |-> img[r].usedEnhance]

\* process_image has returned img[r] to the handler of r.
Returned(r) == pc[r] = "save"

\* The elements of a set of positions, in ascending order.
Ascending(S) ==
    CHOOSE f \in [1..Cardinality(S) -> S] :
        \A i, j \in 1..Cardinality(S) : i < j => f[i] < f[j]

\* The positions of the files of r that have a filename.
Named(r) == {i \in 1..Len(files[r]) : files[r][i] # ""}

\* The error lines the batch handler itself logged for r (line 255).
HandlerLines(r) == SelectSeq(log[r], LAMBDA l : l.site = "process_images")

\* C1: a request with an 'images' field is answered 200 whatever files
\* fail, and its archive holds, in input order, one entry for each file
\* that has a filename and did not fail, each file visited once.
C1_BatchIsolation ==
    \A r \in Requests :
        pc[r] = "done" /\ hasImages[r] =>
            LET ok == Named(r) \ failed[r]
            IN  /\ resp[r].status = 200
                /\ failed[r] \subseteq Named(r)
                /\ Len(archive[r]) = Cardinality(ok)
                /\ \A k \in 1..Len(archive[r]) :
                      /\ archive[r][k].src = Ascending(ok)[k]
                      /\ archive[r][k].name[3] = files[r][archive[r][k].src]
                /\ Len(HandlerLines(r)) = Cardinality(failed[r])

\* A request answered 200 whose first file failed and whose second file is
\* in the archive.
C1_Witness ==
    \E r \in Requests :
        /\ pc[r] = "done" /\ resp[r].status = 200
        /\ Len(files[r]) = 2 /\ failed[r] = {1}
        /\ Len(archive[r]) = 1 /\ archive[r][1].src = 2

\* C2: a request without an 'images' field is answered 400 with the body
\* "No files uploaded", and nothing is decoded, processed, encoded, logged
\* or put in an archive for it.
C2_MissingField ==
    \A r \in Requests :
        ~hasImages[r] /\ pc[r] \notin {"idle", "check"} =>
            /\ pc[r] = "done"
            /\ resp[r] = [status |-> 400, body |-> "No files uploaded",
                          download_name |-> <<>>]
            /\ idx[r] = 0 /\ img[r] = NoImage
            /\ archive[r] = <<>> /\ failed[r] = {} /\ log[r] = <<>>

C2_Witness ==
    \E r \in Requests : pc[r] = "done" /\ resp[r].status = 400

C4_ReturnsRGB ==
    \A r \in Requests : Returned(r) => img[r].mode = "RGB"

\* An image returned after a resize (which yields RGBA) that neither the
\* compositing nor the enhancement brought back to RGB.
C4_Witness ==
    /\ Returned("A") /\ img["A"].mode = "RGB"
    /\ img["A"].usedResize
    /\ ~img["A"].usedRemove /\ ~img["A"].usedEnhance

\* C5: an image returned after a resize has exactly the configured width
\* and height; one returned without a resize has the size it came with.
C5_Dimensions ==
    \A r \in Requests :
        Returned(r) =>
            IF img[r].usedResize
            THEN /\ img[r].w = config.dimensions.width
                 /\ img[r].h = config.dimensions.height
            ELSE /\ img[r].w = img[r].iw
                 /\ img[r].h = img[r].ih

\* An image of another aspect ratio than the box, resized, cut out and
\* enhanced.
C5_Witness ==
    /\ Returned("A")
    /\ img["A"].usedResize /\ img["A"].usedRemove /\ img["A"].usedEnhance
    /\ img["A"].iw * config.dimensions.height
         # img["A"].ih * config.dimensions.width
    /\ img["A"].w = config.dimensions.width
    /\ img["A"].h = config.dimensions.height
    /\ img["A"].cw < img["A"].w

\* C6: with requests handled one after the other, a file is processed with
\* each flag equal to the presence of its field in that request's form, and
\* the configuration differs from the start-up one in those three flags only.
C6_OwnFlags ==
    /\ \A r \in Requests : Returned(r) => Used(r) = FormFlags(form[r])
    /\ \A r \in Requests :
          pc[r] \notin {"idle"} => Flags(config.operations) = FormFlags(form[r])
    /\ DOMAIN config = DOMAIN default_config
    /\ \A k \in DOMAIN config \ {"operations"} : config[k] = default_config[k]
    /\ DOMAIN config.operations = DOMAIN default_config.operations
    /\ config.operations.watermark = default_config.operations.watermark

\* A file processed without resize and enhancement (on by default) and with
\* background removal (off by default), as its request's form states.
C6_Witness ==
    \E r \in Requests :
        /\ Returned(r) /\ form[r] = {"remove_background"}
        /\ ~img[r].usedResize /\ img[r].usedRemove /\ ~img[r].usedEnhance

\* C7: the background an RGBA cut-out is pasted on has the configured
\* colour backgrounds.default_color; a cut-out without alpha is not pasted.
C7_ConfiguredFill ==
    \A r \in Requests :
        pc[r] \in {"enhance", "final", "save"} /\ img[r].usedRemove =>
            \/ img[r].fill = GetRGB(config.backgrounds.default_color)
            \/ img[r].fill = <<>>

\* C8 as stated: all entries of one request's archive carry one timestamp.
C8_OneTimestampPerRequest ==
    \A r \in Requests :
        \A i, j \in 1..Len(archive[r]) :
            archive[r][i].name[2] = archive[r][j].name[2]

\* C8 amended: the timestamp is taken per file: an entry carries the
\* reading of the clock at the step that writes it.
C8_TimestampPerEntry ==
    [][\A r \in Requests :
          Len(archive'[r]) = Len(archive[r]) + 1 =>
              /\ archive'[r][Len(archive'[r])].name[1] = "processed"
              /\ archive'[r][Len(archive'[r])].name[2] = clock
              /\ archive'[r][Len(archive'[r])].name[3] = files[r][idx[r]]
              /\ SubSeq(archive'[r], 1, Len(archive[r])) = archive[r]]_vars

\* Two entries of one request written in different seconds.
C8_Witness ==
    \E r \in Requests :
        /\ Len(archive[r]) = 2
        /\ archive[r][1].name[2] < archive[r][2].name[2]

\* C9: a part without a filename is never decoded, is in no entry and in no
\* log line; the batch handler logs one line, naming the file, for each
\* file with a filename that failed, in the order of the files; nothing is
\* logged for a request none of whose files raised.
C9_SkipAndLog ==
    \A r \in Requests :
        /\ pc[r] \in {"open", "normalize", "resize", "remove", "enhance",
                      "final", "save", "write", "except"} =>
              files[r][idx[r]] # ""
        /\ failed[r] \subseteq Named(r)
        /\ \A k \in 1..Len(archive[r]) : archive[r][k].src \in Named(r)
        /\ Len(HandlerLines(r)) = Cardinality(failed[r])
        /\ \A k \in 1..Len(HandlerLines(r)) :
              HandlerLines(r)[k].file = files[r][Ascending(failed[r])[k]]
        /\ failed[r] = {} /\ pc[r] # "except" => log[r] = <<>>

\* A request whose first part has no filename and whose second part failed:
\* one line, naming the second.
C9_Witness ==
    \E r \in Requests :
        /\ pc[r] = "done" /\ Len(files[r]) = 2
        /\ files[r][1] = "" /\ files[r][2] = "b.png"
        /\ failed[r] = {2} /\ archive[r] = <<>>
        /\ HandlerLines(r) = <<Line("process_images", "b.png")>>

\* C10: a request answered 400 has written its flags: as long as no later
\* request has updated the map, the three flags are those of its form.
C10_RejectedRequestWrites ==
    \A r \in Requests :
        resp[r].status = 400 /\ lastWriter = r =>
            Flags(config.operations) = FormFlags(form[r])

\* A request in its file loop has had its file processed with the flags of
\* a request that was answered 400.
C10_Witness ==
    \E a, b \in Requests :
        /\ a # b /\ Returned(a)
        /\ resp[b].status = 400 /\ lastWriter = b
        /\ Used(a) = FormFlags(form[b])
        /\ Used(a) # FormFlags(form[a])

=============================================================================
